---- MODULE Spec2Model ----
(***************************************************************************)
(* st2mqtt: a speed test driven through a headless browser (fast.ts) and   *)
(* republished as Home Assistant sensors over MQTT (server.ts).            *)
(*                                                                         *)
(* Numeric fields of a FastResult are `number | null`; null is written     *)
(* Null and the numbers are the non-negative values the page displays.     *)
(* An optional object (FastResult | null) is the empty sequence or a       *)
(* one-element sequence.                                                   *)
(***************************************************************************)
EXTENDS Integers, Sequences, FiniteSets, TLC

VARIABLES
  run,        \* the measurement runs in flight (runSpeedTest + runFastTest + init)
  server,     \* startServer's position, the MQTT client, the cron job, the process
  published,  \* the messages handed to client.publishAsync, in order
  warned,     \* the topics reported by the handler's unknown-topic warning
  trace       \* the ticks of a single sampler session (SessionSpec only)

vars == <<run, server, published, warned, trace>>

\* ------------------------------------------------------------------ bounds
MaxTicks == 4
MaxRuns == 2
MaxFires == 2
MaxMessages == 1

Runs == 1..MaxRuns

\* ------------------------------------------------------------- FastResult
Null == -1
None == <<>>
Some(v) == <<v>>

FastResult(ds, us, lat, bb, done) ==
  [downloadSpeed |-> ds, uploadSpeed |-> us, downloadUnit |-> "Mbps",
   downloaded |-> Null, uploadUnit |-> "Mbps", uploaded |-> Null,
   latency |-> lat, bufferBloat |-> bb, userLocation |-> "", userIp |-> "",
   isDone |-> done]

\* what page.evaluate can return in one session of the sampler
SamplerReadings ==
  {FastResult(ds, us, Null, Null, done) :
     ds \in {Null, 0, 50, 55}, us \in {Null, 12}, done \in BOOLEAN}

\* options.measureUpload is `boolean | undefined`
MeasureUploadOptions == {"true", "false", "undefined"}

\* -------------------------------------------------------- util / fast.ts
IsDeepStrictEqual(result, previousResult) == previousResult = Some(result)

\* ShouldEmit without the comparison against the previous Reading
ShouldEmit_NoDedup(result, previousResult) ==
  /\ result.downloadSpeed # Null
  /\ result.downloadSpeed > 0

\* fast.ts:108-112, the condition guarding observer.next
ShouldEmit(result, previousResult) ==
  /\ result.downloadSpeed # Null
  /\ result.downloadSpeed > 0
  /\ ~IsDeepStrictEqual(result, previousResult)

\* ShouldTerminate where isDone counts only with a download speed
ShouldTerminate_DoneNeedsSpeed(result, measureUpload) ==
  \/ (result.isDone /\ result.downloadSpeed # Null)
  \/ (measureUpload # "true" /\ result.uploadSpeed # Null)

\* ShouldTerminate that ignores options.measureUpload
ShouldTerminate_IgnoresOption(result, measureUpload) ==
  \/ result.isDone
  \/ result.uploadSpeed # Null

\* fast.ts:116-119, the condition guarding close/complete/return
ShouldTerminate(result, measureUpload) ==
  \/ result.isDone
  \/ (measureUpload # "true" /\ result.uploadSpeed # Null)

\* ------------------------------------------------ server.ts: runSpeedTest
Max(a, b) == IF a >= b THEN a ELSE b

\* server.ts:106-112
IsUsable(result) ==
  /\ result # None
  /\ result[1].downloadSpeed # Null
  /\ result[1].uploadSpeed # Null
  /\ result[1].latency # Null
  /\ result[1].bufferBloat # Null

\* the subtraction without the clamp at 0
NormalizedBufferBloat_NoClamp(bufferBloat, latency) == bufferBloat - latency

\* server.ts:117
NormalizedBufferBloat(bufferBloat, latency) == Max(bufferBloat - latency, 0)

\* server.ts:113-118
SpeedTestResult(r) ==
  [downloadSpeed |-> r.downloadSpeed, uploadSpeed |-> r.uploadSpeed,
   latency |-> r.latency,
   bufferBloat |-> NormalizedBufferBloat(r.bufferBloat, r.latency)]

\* a promise settles on the first resolve/reject only; settles counts the calls
Resolve(s, v) ==
  IF s.promise = "pending"
  THEN [s EXCEPT !.promise = "resolved", !.value = Some(v), !.settles = @ + 1]
  ELSE [s EXCEPT !.settles = @ + 1]

Reject(s) ==
  IF s.promise = "pending"
  THEN [s EXCEPT !.promise = "rejected", !.settles = @ + 1]
  ELSE [s EXCEPT !.settles = @ + 1]

\* server.ts:102-104, delivered through zen-observable's SubscriptionObserver
ObserverNext(s, value) ==
  IF s.obs = "open"
  THEN [s EXCEPT !.result = Some(value), !.delivered = @ + 1]
  ELSE s

\* server.ts:105-122
ObserverComplete(s) ==
  IF s.obs = "open"
  THEN LET c == [s EXCEPT !.obs = "complete"]
       IN  IF IsUsable(c.result) THEN Resolve(c, SpeedTestResult(c.result[1]))
           ELSE Reject(c)
  ELSE s

\* an error callback that only marks the stream and forgets to reject
ObserverError_NoReject(s) ==
  IF s.obs = "open" THEN [s EXCEPT !.obs = "error"] ELSE s

\* server.ts:123-125
ObserverError(s) ==
  IF s.obs = "open" THEN Reject([s EXCEPT !.obs = "error"]) ELSE s

\* ----------------------------------------------------- the run's record
\* pc: where the run is suspended
\*   idle      not started
\*   path      await getChromeExecutablePath()      fast.ts:134
\*   launch    puppeteer.launch pending             fast.ts:136
\*   newPage   browser.newPage pending              fast.ts:143
\*   goto      page.goto pending                    fast.ts:146
\*   evaluate  await page.evaluate                  fast.ts:70
\*   delay     await delay(100)                     fast.ts:127
\*   returned  init returned                        fast.ts:122
\*   caught    the chain's catch ran                fast.ts:151
\*   threw     the async executor rejected          server.ts:100
\* sample: the local `result` of init; delivered: the observer.next calls
\* of the latest pass; result: the local `result` of runSpeedTest
IdleRun ==
  [pc |-> "idle", measureUpload |-> "true", browser |-> "none", closes |-> 0,
   previousResult |-> None, sample |-> None, delivered |-> 0,
   result |-> None, obs |-> "none", promise |-> "none", settles |-> 0,
   value |-> None, report |-> "none"]

\* server.ts:98-101 up to the await, and fast.ts:131-134
StartedRun(measureUpload) ==
  [IdleRun EXCEPT !.pc = "path", !.measureUpload = measureUpload,
                  !.promise = "pending"]

\* --------------------------------------------------------------- actions
\* fast.ts:134 resolves; the Observable is built and subscribed
\* (server.ts:101), which runs the subscriber and calls puppeteer.launch
PathOk(r) ==
  /\ run[r].pc = "path"
  /\ run' = [run EXCEPT ![r] = [@ EXCEPT !.pc = "launch", !.obs = "open"]]

\* fast.ts:134 rejects (browsers.install failed): runFastTest rejects and the
\* async executor of server.ts:98 rejects with it; nothing settles the promise
PathFail(r) ==
  /\ run[r].pc = "path"
  /\ run' = [run EXCEPT ![r] = [@ EXCEPT !.pc = "threw"]]

\* fast.ts:136-144
LaunchOk(r) ==
  /\ run[r].pc = "launch"
  /\ run' = [run EXCEPT ![r] = [@ EXCEPT !.pc = "newPage", !.browser = "open"]]

\* fast.ts:145-147
NewPageOk(r) ==
  /\ run[r].pc = "newPage"
  /\ run' = [run EXCEPT ![r] = [@ EXCEPT !.pc = "goto"]]

\* fast.ts:148-150 and 67-70
GotoOk(r) ==
  /\ run[r].pc = "goto"
  /\ run' = [run EXCEPT ![r] = [@ EXCEPT !.pc = "evaluate"]]

\* fast.ts:151: a rejection of launch, newPage, goto or of init (page.evaluate)
ChainCatch(s) == ObserverError([s EXCEPT !.pc = "caught"])

Fail(r) ==
  /\ run[r].pc \in {"launch", "newPage", "goto", "evaluate"}
  /\ run' = [run EXCEPT ![r] = ChainCatch(@)]

\* a loop body whose baseline is the last emitted Reading, not the last seen
LoopBody_BaselineIsLastEmitted(s, result) ==
  LET sampled == [s EXCEPT !.sample = Some(result), !.delivered = 0]
      emits == ShouldEmit(result, s.previousResult)
      emitted == IF emits THEN ObserverNext(sampled, result) ELSE sampled
  IN  IF ShouldTerminate(result, s.measureUpload)
      THEN ObserverComplete([emitted EXCEPT !.browser = "closed",
                                            !.closes = @ + 1,
                                            !.pc = "returned"])
      ELSE [emitted EXCEPT
              !.previousResult = IF emits THEN Some(result) ELSE @,
              !.pc = "delay"]

\* a loop body that tests termination before it emits
LoopBody_CompletesFirst(s, result) ==
  LET sampled == [s EXCEPT !.sample = Some(result), !.delivered = 0]
      ended == IF ShouldTerminate(result, s.measureUpload)
               THEN ObserverComplete([sampled EXCEPT !.browser = "closed",
                                                     !.closes = @ + 1,
                                                     !.pc = "returned"])
               ELSE [sampled EXCEPT !.previousResult = Some(result),
                                    !.pc = "delay"]
  IN  IF ShouldEmit(result, s.previousResult)
      THEN ObserverNext(ended, result) ELSE ended

\* fast.ts:108-125, one pass of the loop body after page.evaluate resolved
LoopBody(s, result) ==
  LET sampled == [s EXCEPT !.sample = Some(result), !.delivered = 0]
      emitted == IF ShouldEmit(result, s.previousResult)
                 THEN ObserverNext(sampled, result) ELSE sampled
  IN  IF ShouldTerminate(result, s.measureUpload)
      THEN ObserverComplete([emitted EXCEPT !.browser = "closed",
                                            !.closes = @ + 1,
                                            !.pc = "returned"])
      ELSE [emitted EXCEPT !.previousResult = Some(result), !.pc = "delay"]

\* a reducer whose `result` is one variable shared by all runs
Evaluate_SharedResult(r, readings) ==
  /\ run[r].pc = "evaluate"
  /\ \E result \in readings :
       LET after == LoopBody(run[r], result)
       IN  run' = [q \in DOMAIN run |->
                     IF q = r THEN after
                     ELSE IF run[q].obs = "open"
                          THEN [run[q] EXCEPT !.result = after.result]
                          ELSE run[q]]

Evaluate(r, readings) ==
  /\ run[r].pc = "evaluate"
  /\ \E result \in readings : run' = [run EXCEPT ![r] = LoopBody(@, result)]

\* a delay that gives up: the loop ends the stream after the wait
Delay_TimesOut(r) ==
  /\ run[r].pc = "delay"
  /\ run' = [run EXCEPT ![r] =
               ObserverComplete([@ EXCEPT !.browser = "closed",
                                          !.closes = @ + 1,
                                          !.pc = "returned"])]

\* fast.ts:127, 69-70
Delay(r) ==
  /\ run[r].pc = "delay"
  /\ run' = [run EXCEPT ![r] = [@ EXCEPT !.pc = "evaluate"]]

\* ------------------------------------------------------------ server.ts
SensorTypes == {"download_speed", "upload_speed", "latency", "buffer_bloat"}

\* server.ts:171-176, the order of the calls inside Promise.all
SensorOrder == <<"download_speed", "upload_speed", "latency", "buffer_bloat">>

\* server.ts:12-17
SENSOR_TYPE_TO_NAME(sensorType) ==
  CASE sensorType = "download_speed" -> "Download Speed"
    [] sensorType = "upload_speed" -> "Upload Speed"
    [] sensorType = "latency" -> "Latency"
    [] sensorType = "buffer_bloat" -> "Buffer Bloat"

\* server.ts:19-28, as JSON.stringify writes the value
DeviceClassForSensorType(sensorType) ==
  IF sensorType \in {"download_speed", "upload_speed"}
  THEN "\"data_rate\"" ELSE "null"

\* server.ts:30-39
UnitForSensorType(sensorType) ==
  IF sensorType \in {"download_speed", "upload_speed"} THEN "Mbps" ELSE "ms"

\* server.ts:41-52
IconForSensorType(sensorType) ==
  CASE sensorType = "download_speed" -> "mdi:download"
    [] sensorType = "upload_speed" -> "mdi:upload"
    [] sensorType = "latency" -> "mdi:timer"
    [] sensorType = "buffer_bloat" -> "mdi:timer-sand"

\* server.ts:54-56
GetDeviceIdentifier(identifier) == "st_" \o identifier

\* server.ts:58-61
GetStateTopic(identifier) ==
  "homeassistant/sensor/" \o GetDeviceIdentifier(identifier) \o "/state"

\* server.ts:147
ConfigTopic(identifier, sensorType) ==
  "homeassistant/sensor/" \o GetDeviceIdentifier(identifier) \o "/"
     \o sensorType \o "/config"

StatusTopic == "homeassistant/status"

Quoted(str) == "\"" \o str \o "\""

\* a payload that also carries the number of messages published so far
DiscoveryPayload_Numbered(identifier, sensorType) ==
  "{\"name\":" \o Quoted(SENSOR_TYPE_TO_NAME(sensorType))
  \o ",\"state_topic\":" \o Quoted(GetStateTopic(identifier))
  \o ",\"seq\":" \o ToString(Len(published)) \o "}"

\* server.ts:148-164, JSON.stringify(payload)
DiscoveryPayload(identifier, sensorType) ==
  "{\"name\":" \o Quoted(SENSOR_TYPE_TO_NAME(sensorType))
  \o ",\"state_topic\":" \o Quoted(GetStateTopic(identifier))
  \o ",\"device_class\":" \o DeviceClassForSensorType(sensorType)
  \o ",\"unique_id\":"
  \o Quoted(GetDeviceIdentifier(identifier) \o "_" \o sensorType)
  \o ",\"value_template\":" \o Quoted("{{ value_json." \o sensorType \o " }}")
  \o ",\"icon\":" \o Quoted(IconForSensorType(sensorType))
  \o ",\"unit_of_measurement\":" \o Quoted(UnitForSensorType(sensorType))
  \o ",\"device\":{\"name\":\"Speedtest Sensor\",\"identifiers\":["
  \o Quoted(GetDeviceIdentifier(identifier))
  \o "],\"manufacturer\":\"Vincent Riemer\""
  \o ",\"model\":\"Speedtest Docker Container\"}}"

\* server.ts:141-165, the message handed to client.publishAsync
PublishDiscoverMessage(identifier, sensorType) ==
  [topic |-> ConfigTopic(identifier, sensorType),
   payload |-> DiscoveryPayload(identifier, sensorType)]

\* a burst that leaves out the last sensor
PublishDiscoveryMessages_ThreeSensors(identifier) ==
  [i \in 1..3 |-> PublishDiscoverMessage(identifier, SensorOrder[i])]

\* server.ts:167-177: the four publishAsync calls are made synchronously,
\* in this order, before Promise.all is awaited
PublishDiscoveryMessages(identifier) ==
  [i \in 1..4 |-> PublishDiscoverMessage(identifier, SensorOrder[i])]

\* a state object whose last key is misspelt
StatePayload_RenamedKey(result) ==
  "{\"download_speed\":" \o ToString(result.downloadSpeed)
  \o ",\"upload_speed\":" \o ToString(result.uploadSpeed)
  \o ",\"latency\":" \o ToString(result.latency)
  \o ",\"bufferbloat\":" \o ToString(result.bufferBloat) \o "}"

\* server.ts:81-86, JSON.stringify of the state object
StatePayload(result) ==
  "{\"download_speed\":" \o ToString(result.downloadSpeed)
  \o ",\"upload_speed\":" \o ToString(result.uploadSpeed)
  \o ",\"latency\":" \o ToString(result.latency)
  \o ",\"buffer_bloat\":" \o ToString(result.bufferBloat) \o "}"

\* the threshold test with the comparison slipped to <=
SkipsPublishing_AtMostFive(result) == result.downloadSpeed <= 5

\* server.ts:68
SkipsPublishing(result) == result.downloadSpeed < 5

\* server.ts:63-88, the messages publishSpeedTestResult hands to the client
PublishSpeedTestResult(identifier, result) ==
  IF SkipsPublishing(result) THEN <<>>
  ELSE <<[topic |-> GetStateTopic(identifier),
          payload |-> StatePayload(result)]>>

\* server.ts:200-202
ExitCode(signal) ==
  CASE signal = "SIGHUP" -> 128 + 1
    [] signal = "SIGINT" -> 128 + 2
    [] signal = "SIGTERM" -> 128 + 15

Signals == {"SIGHUP", "SIGINT", "SIGTERM"}

Identifiers == {"attic", "den"}

\* topics a message can arrive on
IncomingTopics == {StatusTopic, "homeassistant/other"}

\* server.pc: where startServer is suspended
\*   connect    await mqtt.connectAsync                  server.ts:222
\*   discovery  await publishDiscoveryMessages           server.ts:231
\*   measure    await runAndReport                       server.ts:234
\*   subscribe  await mqttClient.subscribeAsync          server.ts:237
\*   started    startServer returned                     server.ts:248
\*   rejected   startServer rejected at                  server.ts:234
\* proc: running | exited (process.exit) | crashed (unhandled rejection)
InitialServer(identifier) ==
  [pc |-> "connect", identifier |-> identifier, client |-> "none",
   handler |-> FALSE, subscribed |-> FALSE, cron |-> "none",
   exitHandlers |-> FALSE, proc |-> "running", exitCode |-> 0,
   pending |-> 0, fires |-> 0, messages |-> 0]

Live == server.proc = "running"

\* an unhandled promise rejection either ends the process or is only reported
RejectionOutcomes == {"running", "crashed"}

FreeRuns == {r \in DOMAIN run : run[r].pc = "idle"}

\* server.ts:222-231
ConnectOk ==
  /\ Live
  /\ server.pc = "connect"
  /\ server' = [server EXCEPT !.pc = "discovery", !.client = "connected",
                              !.handler = TRUE]
  /\ published' = published \o PublishDiscoveryMessages(server.identifier)
  /\ UNCHANGED <<run, warned, trace>>

\* a startup that subscribes and creates the cron job before it measures
DiscoveryDone_SubscribesFirst ==
  /\ server.proc = "running"
  /\ server.pc = "discovery"
  /\ server' = [server EXCEPT !.pc = "measure", !.subscribed = TRUE,
                              !.cron = "running"]
  /\ run' = [run EXCEPT ![1] = StartedRun("true")]
  /\ UNCHANGED <<published, warned, trace>>

\* server.ts:231-234, 130-132, 97-100 and fast.ts:131-134
DiscoveryDone ==
  /\ Live
  /\ server.pc = "discovery"
  /\ server' = [server EXCEPT !.pc = "measure"]
  /\ run' = [run EXCEPT ![1] = StartedRun("true")]
  /\ UNCHANGED <<published, warned, trace>>

\* server.ts:132-138 and 63-87: runSpeedTest resolved
Report(r) ==
  /\ Live
  /\ run[r].promise = "resolved"
  /\ run[r].report = "none"
  /\ LET messages == PublishSpeedTestResult(server.identifier, run[r].value[1])
     IN  /\ published' = published \o messages
         /\ run' = [run EXCEPT ![r].report =
                      IF messages = <<>> THEN "skipped" ELSE "published"]
  /\ UNCHANGED <<server, warned, trace>>

\* server.ts:138-139 (and 72): runAndReport returns; server.ts:234-237 when
\* it is the run startServer awaits
ReportDone(r) ==
  /\ Live
  /\ run[r].report # "none"
  /\ run' = [run EXCEPT ![r] = IdleRun]
  /\ server' = IF server.pc = "measure"
               THEN [server EXCEPT !.pc = "subscribe"] ELSE server
  /\ UNCHANGED <<published, warned, trace>>

\* server.ts:132: runSpeedTest rejected, runAndReport rejects with it; at
\* server.ts:234 startServer rejects too, at server.ts:243 nobody holds the
\* promise: in both cases the rejection is unhandled
ReportFail(r) ==
  /\ Live
  /\ run[r].promise = "rejected"
  /\ run' = [run EXCEPT ![r] = IdleRun]
  /\ \E outcome \in RejectionOutcomes :
       server' = [server EXCEPT
                    !.pc = IF @ = "measure" THEN "rejected" ELSE @,
                    !.proc = outcome]
  /\ UNCHANGED <<published, warned, trace>>

\* server.ts:237-248 and 193-203
SubscribeOk ==
  /\ Live
  /\ server.pc = "subscribe"
  /\ server' = [server EXCEPT !.pc = "started", !.subscribed = TRUE,
                              !.cron = "running", !.exitHandlers = TRUE]
  /\ UNCHANGED <<run, published, warned, trace>>

\* server.ts:241-244 and 130-132: the schedule fires
CronFire ==
  /\ Live
  /\ server.cron = "running"
  /\ server.fires < MaxFires
  /\ FreeRuns # {}
  /\ LET r == CHOOSE x \in FreeRuns : \A y \in FreeRuns : x <= y
     IN  run' = [run EXCEPT ![r] = StartedRun("true")]
  /\ server' = [server EXCEPT !.fires = @ + 1]
  /\ UNCHANGED <<published, warned, trace>>

\* a handler whose reset also drops the measurements in flight
Receive_AbortsRuns(topic) ==
  /\ server.proc = "running"
  /\ server.handler
  /\ topic = StatusTopic => server.subscribed
  /\ server.messages < MaxMessages
  /\ IF topic = "homeassistant/status"
     THEN /\ published' =
               published \o PublishDiscoveryMessages(server.identifier)
          /\ server' = [server EXCEPT !.messages = @ + 1, !.pending = @ + 1]
          /\ warned' = warned
          /\ run' = [r \in DOMAIN run |-> IdleRun]
     ELSE /\ warned' = Append(warned, topic)
          /\ server' = [server EXCEPT !.messages = @ + 1]
          /\ published' = published
          /\ run' = run
  /\ trace' = trace

\* server.ts:180-189 up to the await: a message arrives
Receive(topic) ==
  /\ Live
  /\ server.handler
  /\ topic = StatusTopic => server.subscribed
  /\ server.messages < MaxMessages
  /\ IF topic = "homeassistant/status"
     THEN /\ published' =
               published \o PublishDiscoveryMessages(server.identifier)
          /\ server' = [server EXCEPT !.messages = @ + 1, !.pending = @ + 1]
          /\ warned' = warned
     ELSE /\ warned' = Append(warned, topic)
          /\ server' = [server EXCEPT !.messages = @ + 1]
          /\ published' = published
  /\ UNCHANGED <<run, trace>>

\* server.ts:184-188: the await of the burst returns and the case falls
\* through to default
HandlerResume ==
  /\ Live
  /\ server.pending > 0
  /\ server' = [server EXCEPT !.pending = @ - 1]
  /\ warned' = Append(warned, StatusTopic)
  /\ UNCHANGED <<run, published, trace>>

\* server.ts:200-202: process.exit emits 'exit', not 'beforeExit', so the
\* handler of server.ts:195-199 is not called
Signal(signal) ==
  /\ Live
  /\ server.exitHandlers
  /\ server' = [server EXCEPT !.proc = "exited", !.exitCode = ExitCode(signal)]
  /\ UNCHANGED <<run, published, warned, trace>>

\* ------------------------------------------------- steps of a run, server
InRun(step) == Live /\ step /\ UNCHANGED <<server, published, warned, trace>>

RunPathOk == \E r \in DOMAIN run : InRun(PathOk(r))
RunLaunchOk == \E r \in DOMAIN run : InRun(LaunchOk(r))
RunNewPageOk == \E r \in DOMAIN run : InRun(NewPageOk(r))
RunGotoOk == \E r \in DOMAIN run : InRun(GotoOk(r))
RunFail == \E r \in DOMAIN run : InRun(Fail(r))
RunDelay == \E r \in DOMAIN run : InRun(Delay(r))

\* the rejection of the executor of server.ts:98 is unhandled
RunPathFail ==
  \E r \in DOMAIN run :
    /\ Live
    /\ PathFail(r)
    /\ \E outcome \in RejectionOutcomes :
         server' = [server EXCEPT !.proc = outcome]
    /\ UNCHANGED <<published, warned, trace>>

RunReport == \E r \in DOMAIN run : Report(r)
RunReportDone == \E r \in DOMAIN run : ReportDone(r)
RunReportFail == \E r \in DOMAIN run : ReportFail(r)

\* ------------------------------------------- one session of runFastTest
\* trace: the Readings sampled by the session, each with the number of
\* observer.next deliveries made by its tick
InSession(step) == step /\ UNCHANGED <<server, published, warned, trace>>

SessionInit ==
  /\ \E mu \in MeasureUploadOptions : run = <<StartedRun(mu)>>
  /\ server = InitialServer("attic")
  /\ published = <<>>
  /\ warned = <<>>
  /\ trace = <<>>

SPathOk == InSession(PathOk(1))
SPathFail == InSession(PathFail(1))
SLaunchOk == InSession(LaunchOk(1))
SNewPageOk == InSession(NewPageOk(1))
SGotoOk == InSession(GotoOk(1))
SFail == InSession(Fail(1))
SDelay == InSession(Delay(1))

SEvaluate ==
  /\ Len(trace) < MaxTicks
  /\ Evaluate(1, SamplerReadings)
  /\ trace' = Append(trace, [reading |-> run'[1].sample[1],
                             emitted |-> run'[1].delivered])
  /\ UNCHANGED <<server, published, warned>>

SessionNext ==
  \/ SPathOk
  \/ SPathFail
  \/ SLaunchOk
  \/ SNewPageOk
  \/ SGotoOk
  \/ SFail
  \/ SEvaluate
  \/ SDelay

SessionSpec == SessionInit /\ [][SessionNext]_vars

\* ------------------------------------ one call of runAndReport (server.ts)
ReportReadings ==
  {FastResult(ds, us, lat, bb, done) :
     ds \in {Null, 0, 3, 4, 5, 50}, us \in {Null, 12}, lat \in {Null, 20},
     bb \in {Null, 15, 35}, done \in BOOLEAN}

ReportInit ==
  /\ run = <<StartedRun("true")>>
  /\ \E identifier \in Identifiers :
       server = [InitialServer(identifier) EXCEPT
                   !.pc = "measure", !.client = "connected", !.handler = TRUE]
  /\ published = <<>>
  /\ warned = <<>>
  /\ trace = <<>>

REvaluate == InRun(Evaluate(1, ReportReadings))

ReportNext ==
  \/ RunPathOk
  \/ RunPathFail
  \/ RunLaunchOk
  \/ RunNewPageOk
  \/ RunGotoOk
  \/ RunFail
  \/ REvaluate
  \/ RunDelay
  \/ RunReport
  \/ RunReportDone
  \/ RunReportFail

ReportSpec == ReportInit /\ [][ReportNext]_vars

\* the event loop runs every continuation that is ready, and the browser
\* answers every call (with a value or a rejection)
FairReportSpec == ReportSpec /\ WF_vars(ReportNext)

\* ------------------------------------------------------------ the server
ServerReadings ==
  {FastResult(50, 12, Null, 35, FALSE), FastResult(50, 12, 20, 35, FALSE),
   FastResult(50, 12, 20, 35, TRUE), FastResult(0, 12, 20, 35, TRUE)}

Init ==
  /\ run = [r \in Runs |-> IdleRun]
  /\ server = InitialServer("attic")
  /\ published = <<>>
  /\ warned = <<>>
  /\ trace = <<>>

RunEvaluate == \E r \in DOMAIN run : InRun(Evaluate(r, ServerReadings))
ReceiveMessage == \E topic \in IncomingTopics : Receive(topic)
ReceiveSignal == \E signal \in Signals : Signal(signal)

Next ==
  \/ ConnectOk
  \/ DiscoveryDone
  \/ SubscribeOk
  \/ CronFire
  \/ ReceiveMessage
  \/ HandlerResume
  \/ ReceiveSignal
  \/ RunPathOk
  \/ RunPathFail
  \/ RunLaunchOk
  \/ RunNewPageOk
  \/ RunGotoOk
  \/ RunFail
  \/ RunEvaluate
  \/ RunDelay
  \/ RunReport
  \/ RunReportDone
  \/ RunReportFail

Spec == Init /\ [][Next]_vars

\* ================================================= properties of a session
Session == run[1]

Present(x) == x # Null

Qualifies(i) ==
  /\ Present(trace[i].reading.downloadSpeed)
  /\ trace[i].reading.downloadSpeed > 0
  /\ (i = 1 \/ trace[i].reading # trace[i - 1].reading)

IsScenario1 ==
  /\ Len(trace) = 4
  /\ trace[1].reading.downloadSpeed = 0
  /\ trace[2].reading.downloadSpeed = 50
  /\ trace[3].reading = trace[2].reading
  /\ trace[4].reading.downloadSpeed = 55
  /\ trace[4].reading.isDone

\* C1: a sampled Reading is emitted (exactly once) iff its downloadSpeed is
\* present and > 0 and it differs from the Reading sampled on the preceding
\* tick (the first tick has no predecessor); and the ticks
\* [ds=0, ds=50, the same again, ds=55 with isDone] emit exactly at ticks 2
\* and 4 and then the stream is complete.
C1_EmitIffQualifiesAndNew ==
  /\ \A i \in 1..Len(trace) :
       trace[i].emitted = (IF Qualifies(i) THEN 1 ELSE 0)
  /\ IsScenario1 =>
       /\ {i \in 1..4 : trace[i].emitted = 1} = {2, 4}
       /\ Session.obs = "complete"

C1_Witness ==
  /\ IsScenario1
  /\ Session.delivered = 1
  /\ Session.obs = "complete"

\* C2: the first sampled Reading with isDone ends the stream with complete,
\* whatever its other fields and whatever measureUpload is; it is the last
\* Reading sampled and nothing is emitted after its tick.
C2_DoneCompletes ==
  \A i \in 1..Len(trace) :
    trace[i].reading.isDone =>
      /\ i = Len(trace)
      /\ Session.sample = Some(trace[i].reading)
      /\ Session.obs = "complete"
      /\ Session.pc = "returned"

C2_Witness ==
  /\ Len(trace) = 3
  /\ trace[3].reading.isDone
  /\ ~Present(trace[3].reading.downloadSpeed)
  /\ ~Present(trace[3].reading.uploadSpeed)
  /\ Session.measureUpload = "true"
  /\ Session.obs = "complete"

\* C3: without measureUpload = true the stream completes at the first tick
\* whose Reading has uploadSpeed present; with measureUpload = true a Reading
\* with uploadSpeed present and isDone false does not end the stream.
C3_UploadEndsUnlessMeasured ==
  \A i \in 1..Len(trace) :
    LET reading == trace[i].reading IN
    /\ (Session.measureUpload # "true" /\ Present(reading.uploadSpeed)) =>
         (i = Len(trace) /\ Session.obs = "complete" /\ Session.pc = "returned")
    /\ (Session.measureUpload = "true" /\ Present(reading.uploadSpeed)
          /\ ~reading.isDone /\ i = Len(trace)) =>
         (Session.obs # "complete" /\ Session.pc # "returned"
            /\ Session.browser = "open")

C3_Witness ==
  /\ Session.measureUpload = "undefined"
  /\ Len(trace) = 2
  /\ ~Present(trace[1].reading.uploadSpeed)
  /\ Present(trace[2].reading.uploadSpeed)
  /\ ~trace[2].reading.isDone
  /\ Session.obs = "complete"

\* C4: a run that has ended, by completion or by a failure, has closed the
\* browser it launched exactly once and holds no open browser.
C4_BrowserReleasedOnce ==
  Session.pc \in {"returned", "caught"} =>
    /\ Session.browser # "open"
    /\ Session.closes = (IF Session.browser = "closed" THEN 1 ELSE 0)

\* what the code does guarantee: the browser is closed once on completion
C4_ClosedOnCompletion ==
  Session.pc = "returned" => (Session.browser = "closed" /\ Session.closes = 1)

\* ============================================ properties of runAndReport
Measurement == run[1]

StateMessages == {i \in 1..Len(published) :
                    published[i].topic = GetStateTopic(server.identifier)}

\* C5: once the session stream has completed or failed, the promise of
\* runSpeedTest has been settled by exactly one call, resolve with one
\* result or reject, never both and never neither; a failed stream rejects
\* and carries no result.
C5_SettlesExactlyOnce ==
  /\ Measurement.settles <= 1
  /\ Measurement.obs \in {"complete", "error"} =>
       /\ Measurement.settles = 1
       /\ Measurement.promise \in {"resolved", "rejected"}
       /\ Measurement.promise = "resolved" <=> Measurement.value # None
  /\ Measurement.obs = "error" =>
       (Measurement.promise = "rejected" /\ Measurement.value = None)
  /\ Measurement.obs \in {"none", "open"} => Measurement.settles = 0

C5_Witness ==
  /\ Measurement.obs = "error"
  /\ Measurement.pc = "caught"
  /\ Measurement.result # None
  /\ IsUsable(Measurement.result)
  /\ Measurement.promise = "rejected"
  /\ Measurement.settles = 1

AllPresent(reading) ==
  /\ Present(reading.downloadSpeed)
  /\ Present(reading.uploadSpeed)
  /\ Present(reading.latency)
  /\ Present(reading.bufferBloat)

\* C6: a MeasurementResult exists only if the Reading sampled on the
\* terminating tick has downloadSpeed, uploadSpeed, latency and bufferBloat;
\* if that Reading lacks one, the measurement fails and nothing is published.
C6_ResultOnlyFromTerminalReading ==
  Measurement.pc = "returned" =>
    /\ Measurement.promise = "resolved" => AllPresent(Measurement.sample[1])
    /\ ~AllPresent(Measurement.sample[1]) =>
         (Measurement.promise = "rejected" /\ StateMessages = {})

PublishableResults ==
  {SpeedTestResult(reading) :
     reading \in {x \in ReportReadings :
                    AllPresent(x) /\ x.downloadSpeed >= 5}}

\* C7: publishSpeedTestResult sends exactly one message, to the state topic,
\* when downloadSpeed >= 5 and none when downloadSpeed < 5, which is not an
\* error; every state message carries a download_speed >= 5.
C7_PublishIffAtLeastFive ==
  /\ Measurement.report = "published" =>
       /\ Measurement.value[1].downloadSpeed >= 5
       /\ published = <<[topic |-> GetStateTopic(server.identifier),
                        payload |-> StatePayload(Measurement.value[1])]>>
  /\ Measurement.report = "skipped" =>
       /\ Measurement.value[1].downloadSpeed < 5
       /\ published = <<>>
       /\ server.proc = "running"
  /\ (Measurement.report = "none" /\ server.pc = "measure") => published = <<>>
  /\ \A i \in 1..Len(published) :
       /\ published[i].topic = GetStateTopic(server.identifier)
       /\ \E result \in PublishableResults :
            published[i].payload = StatePayload(result)
  /\ Len(published) <= 1

C7_Witness ==
  /\ Measurement.report = "skipped"
  /\ Measurement.value[1].downloadSpeed = 3
  /\ published = <<>>

\* C8: a result's bufferBloat is max(raw bufferBloat - latency, 0) of the
\* last Reading the reducer saw, hence >= 0, also in the published payload;
\* (latency 20, raw 15) gives 0 and (latency 20, raw 35) gives 15.
C8_BufferBloatClamped ==
  Measurement.promise = "resolved" =>
    LET raw == Measurement.result[1].bufferBloat
        latency == Measurement.result[1].latency
        normalized == Measurement.value[1].bufferBloat
    IN  /\ normalized = (IF raw - latency > 0 THEN raw - latency ELSE 0)
        /\ normalized >= 0
        /\ (latency = 20 /\ raw = 15) => normalized = 0
        /\ (latency = 20 /\ raw = 35) => normalized = 15
        /\ Measurement.report = "published" =>
             \E result \in PublishableResults :
               /\ result.bufferBloat >= 0
               /\ published[Len(published)].payload = StatePayload(result)

C8_Witness ==
  /\ Measurement.promise = "resolved"
  /\ Measurement.result[1].latency = 20
  /\ Measurement.result[1].bufferBloat = 15
  /\ Measurement.value[1].bufferBloat = 0
  /\ Measurement.report = "published"

\* ============================================== properties of the server
ConfigTopics == {ConfigTopic(server.identifier, t) : t \in SensorTypes}

StatusArrives == server'.pending = server.pending + 1
StatusHandled == server'.pending = server.pending - 1

\* C9: a message on homeassistant/status makes the handler publish exactly
\* four messages, one to each sensor's config topic, and none to the state
\* topic; the rest of the handler publishes nothing.
C9_ResetPublishesFourConfigs ==
  [][/\ StatusArrives =>
          /\ Len(published') = Len(published) + 4
          /\ SubSeq(published', 1, Len(published)) = published
          /\ {published'[i].topic :
                i \in (Len(published) + 1)..(Len(published) + 4)}
               = ConfigTopics
          /\ Cardinality(ConfigTopics) = 4
          /\ GetStateTopic(server.identifier) \notin ConfigTopics
     /\ StatusHandled => published' = published]_vars

C9_Witness ==
  /\ server.messages = 1
  /\ server.pending = 1
  /\ Len(published) >= 8
  /\ {published[i].topic : i \in (Len(published) - 3)..Len(published)}
       = ConfigTopics

\* C10: once a termination signal has been handled, the shutdown sequence
\* has run: the cron job is stopped and the MQTT client is ended.
C10_ShutdownRunsOnSignal ==
  server.proc = "exited" =>
    (server.cron = "stopped" /\ server.client = "ended")

\* C11: a failed measurement fails only its run: the step in which
\* runAndReport rejects publishes nothing and starts no other run, the
\* process keeps running, a failed startup run still goes on to subscribe,
\* and an existing cron job keeps running.
RunFails(r) == run[r].promise = "rejected" /\ run'[r].pc = "idle"

C11_FailureFailsOnlyTheRun ==
  [][\A r \in DOMAIN run :
       RunFails(r) =>
         /\ published' = published
         /\ \A q \in DOMAIN run : run[q].pc = "idle" => run'[q].pc = "idle"
         /\ server'.proc = "running"
         /\ server.pc = "measure" => server'.pc = "subscribe"
         /\ server.pc = "started" =>
              (server'.cron = "running" /\ server'.subscribed)]_vars

\* C12: every message published to a sensor's config topic, at startup or
\* after any reset notification or measurement, carries the same payload,
\* and the payload is the fixed text of (identifier, sensorType).
LatencyPayload(identifier) ==
  "{\"name\":\"Latency\",\"state_topic\":\"homeassistant/sensor/st_"
  \o identifier \o "/state\",\"device_class\":null,\"unique_id\":\"st_"
  \o identifier \o "_latency\",\"value_template\":\"{{ value_json.latency }}\","
  \o "\"icon\":\"mdi:timer\",\"unit_of_measurement\":\"ms\",\"device\":{"
  \o "\"name\":\"Speedtest Sensor\",\"identifiers\":[\"st_" \o identifier
  \o "\"],\"manufacturer\":\"Vincent Riemer\","
  \o "\"model\":\"Speedtest Docker Container\"}}"

C12_DiscoveryIsDeterministic ==
  /\ \A i \in 1..Len(published) : \A k \in 1..4 :
       published[k].topic = published[i].topic =>
         published[k].payload = published[i].payload
  /\ Len(published) >= 4 =>
       /\ published[3].topic = "homeassistant/sensor/st_" \o server.identifier
                                 \o "/latency/config"
       /\ published[3].payload = LatencyPayload(server.identifier)

C12_Witness ==
  \E i, j, k \in 1..Len(published) :
    /\ i < j
    /\ j < k
    /\ published[i].topic = ConfigTopic(server.identifier, "latency")
    /\ published[j].topic = GetStateTopic(server.identifier)
    /\ published[k].topic = ConfigTopic(server.identifier, "latency")
    /\ server.messages >= 1

\* C13: the previous Reading is overwritten on every non-terminal tick,
\* emitted or not, so a Reading is compared with the tick before it: in
\* ticks A, B, A with downloadSpeed(A) > 0 and B # A, A is emitted both times.
C13_ComparedWithLastObservation ==
  /\ (Len(trace) > 0 /\ Session.pc # "returned") =>
       Session.previousResult = Some(trace[Len(trace)].reading)
  /\ \A i \in 1..Len(trace) :
       (/\ i + 2 <= Len(trace)
        /\ trace[i].reading = trace[i + 2].reading
        /\ trace[i + 1].reading # trace[i].reading
        /\ Present(trace[i].reading.downloadSpeed)
        /\ trace[i].reading.downloadSpeed > 0) =>
         /\ trace[i + 2].emitted = 1
         /\ (i = 1 \/ trace[i - 1].reading # trace[i].reading) =>
              trace[i].emitted = 1

C13_Witness ==
  /\ Len(trace) = 3
  /\ trace[1].reading.downloadSpeed = 50
  /\ trace[2].reading.downloadSpeed = 0
  /\ trace[3].reading = trace[1].reading
  /\ trace[1].emitted = 1
  /\ trace[2].emitted = 0
  /\ trace[3].emitted = 1

\* C14: a tick whose Reading passes the emit filter and also ends the
\* stream delivers that Reading once, before complete; it is the last tick,
\* the reducer holds that Reading and the stream is complete.
Terminates(reading) ==
  \/ reading.isDone
  \/ (Session.measureUpload # "true" /\ Present(reading.uploadSpeed))

C14_EmitsThenCompletes ==
  \A i \in 1..Len(trace) :
    (Qualifies(i) /\ Terminates(trace[i].reading)) =>
      /\ trace[i].emitted = 1
      /\ i = Len(trace)
      /\ Session.result = Some(trace[i].reading)
      /\ Session.delivered = 1
      /\ Session.obs = "complete"
      /\ Session.settles = 1

C14_Witness ==
  /\ Len(trace) = 2
  /\ trace[1].emitted = 1
  /\ trace[2].emitted = 1
  /\ trace[2].reading.isDone
  /\ Session.result = Some(trace[2].reading)
  /\ Session.obs = "complete"

\* C15: startup order: the handler is registered before any publish; the
\* startup burst of four config messages is done before a measurement
\* starts; the startup measurement, state publish included, is over before
\* the subscription and the cron job exist, so while it is in flight no
\* cron run and no reset burst happens.
C15_StartupOrder ==
  /\ published # <<>> => server.handler
  /\ \A r \in DOMAIN run :
       run[r].pc # "idle" =>
         /\ server.pc \notin {"connect", "discovery"}
         /\ Len(published) >= 4
         /\ {published[i].topic : i \in 1..4} = ConfigTopics
  /\ server.pc = "measure" =>
       /\ ~server.subscribed
       /\ server.cron = "none"
       /\ server.fires = 0
       /\ server.pending = 0
       /\ Len(published) <= 5
       /\ \A r \in DOMAIN run : r # 1 => run[r].pc = "idle"
  /\ server.pc = "subscribe" =>
       /\ \A r \in DOMAIN run : run[r].pc = "idle"
       /\ ~server.subscribed
       /\ server.cron = "none"
  /\ (server.subscribed \/ server.cron # "none") => server.pc = "started"

C15_Witness ==
  /\ server.pc = "measure"
  /\ run[1].report = "published"
  /\ Len(published) = 5
  /\ published[5].topic = GetStateTopic(server.identifier)
  /\ ~server.subscribed
  /\ server.cron = "none"

\* C16: runs are isolated: a step of one run changes no other run's record,
\* a run's last-seen Reading and baseline only ever become the Reading its
\* own session just sampled, and its result is built from its own
\* last-seen Reading. (Two runs in flight at once: C16_Witness.)
InFlight(r) == run[r].pc \in {"path", "launch", "newPage", "goto",
                              "evaluate", "delay"}

C16_RunsAreIsolated ==
  [][\A r \in DOMAIN run :
       run'[r] # run[r] =>
         /\ \A q \in DOMAIN run : q # r => run'[q] = run[q]
         /\ (run'[r].result # run[r].result /\ run'[r].pc # "idle") =>
              run'[r].result = run'[r].sample
         /\ (run'[r].previousResult # run[r].previousResult
               /\ run'[r].pc # "idle") =>
              run'[r].previousResult = run'[r].sample
         /\ (run[r].promise = "pending" /\ run'[r].promise = "resolved") =>
              /\ run'[r].value[1].downloadSpeed
                   = run'[r].result[1].downloadSpeed
              /\ run'[r].value[1].uploadSpeed = run'[r].result[1].uploadSpeed
              /\ run'[r].value[1].latency = run'[r].result[1].latency]_vars

C16_Witness ==
  /\ server.fires = 2
  /\ InFlight(1)
  /\ InFlight(2)
  /\ run[1].result # None
  /\ run[2].result # None
  /\ run[1].result # run[2].result
  /\ run[1].previousResult # run[2].previousResult

\* C17: a reset notification that arrives while a cron run is in flight
\* publishes its burst and leaves every run as it is, as does the rest of
\* the handler; the run's later state publish is the payload of its own
\* result.
C17_ResetDoesNotInterrupt ==
  [][/\ (StatusArrives \/ StatusHandled) =>
          /\ run' = run
          /\ server'.cron = server.cron
          /\ server'.proc = server.proc
     /\ StatusArrives => Len(published') = Len(published) + 4
     /\ \A r \in DOMAIN run :
          (run[r].report = "none" /\ run'[r].report = "published") =>
            published' = Append(published,
                                [topic |-> GetStateTopic(server.identifier),
                                 payload |-> StatePayload(run[r].value[1])])]_vars

C17_Witness ==
  /\ server.fires = 1
  /\ server.pending = 1
  /\ run[1].pc = "delay"
  /\ run[1].result # None
  /\ {published[i].topic : i \in (Len(published) - 3)..Len(published)}
       = ConfigTopics

\* C18: the unknown-topic warning is given for a topic exactly when the
\* topic is not homeassistant/status.
C18_WarnsOnlyUnknownTopics ==
  \A i \in 1..Len(warned) : warned[i] # "homeassistant/status"

\* C19: the sampler has no timeout: while it loops (no failure, no Reading
\* that meets a termination condition) the stream stays open and the
\* promise pending; the stream completes only on a tick whose Reading meets
\* a termination condition, and then the promise is settled; so a
\* measurement either settles, or never got a stream, or samples forever.
MeetsTermination(reading) ==
  \/ reading.isDone
  \/ (Measurement.measureUpload # "true" /\ Present(reading.uploadSpeed))

C19_WhileSampling ==
  /\ Measurement.pc \in {"evaluate", "delay"} =>
       /\ Measurement.obs = "open"
       /\ Measurement.promise = "pending"
       /\ Measurement.settles = 0
       /\ Measurement.sample # None =>
            ~MeetsTermination(Measurement.sample[1])
  /\ Measurement.pc = "delay" => Measurement.sample # None
  /\ Measurement.pc = "returned" =>
       /\ MeetsTermination(Measurement.sample[1])
       /\ Measurement.obs = "complete"
       /\ Measurement.promise \in {"resolved", "rejected"}
  /\ Measurement.obs = "complete" => Measurement.pc = "returned"

C19_NoTimeoutOfItsOwn ==
  /\ []C19_WhileSampling
  /\ \/ <>(Measurement.promise \in {"resolved", "rejected"})
     \/ <>(Measurement.pc = "threw")
     \/ []<>(Measurement.pc = "delay")

C19_Witness ==
  /\ Measurement.pc = "delay"
  /\ Measurement.promise = "pending"
  /\ IsUsable(Measurement.result)
  /\ Measurement.previousResult # None
  /\ Measurement.previousResult # Measurement.result

\* C20: every message published is a state message on
\* homeassistant/sensor/st_<id>/state whose object has exactly the keys
\* download_speed, upload_speed, latency, buffer_bloat, or a config message
\* of one sensor whose state_topic is that state topic, whose value template
\* selects one of those keys and whose unique_id is st_<id>_<sensor>; the
\* four config topics and the four unique ids are pairwise distinct.
StateKeys == {"download_speed", "upload_speed", "latency", "buffer_bloat"}

ExpectedStateTopic == "homeassistant/sensor/st_" \o server.identifier \o "/state"

ExpectedUniqueId(key) == "st_" \o server.identifier \o "_" \o key

ServerResults ==
  {SpeedTestResult(reading) : reading \in {x \in ServerReadings : AllPresent(x)}}

IsStateMessage(message) ==
  /\ message.topic = ExpectedStateTopic
  /\ \E result \in ServerResults :
       message.payload =
         "{\"download_speed\":" \o ToString(result.downloadSpeed)
         \o ",\"upload_speed\":" \o ToString(result.uploadSpeed)
         \o ",\"latency\":" \o ToString(result.latency)
         \o ",\"buffer_bloat\":" \o ToString(result.bufferBloat) \o "}"

IsConfigMessage(message) ==
  \E key \in StateKeys :
    /\ message.topic = "homeassistant/sensor/st_" \o server.identifier
                         \o "/" \o key \o "/config"
    /\ message.payload =
         "{\"name\":" \o Quoted(SENSOR_TYPE_TO_NAME(key))
         \o ",\"state_topic\":" \o Quoted(ExpectedStateTopic)
         \o ",\"device_class\":" \o DeviceClassForSensorType(key)
         \o ",\"unique_id\":" \o Quoted(ExpectedUniqueId(key))
         \o ",\"value_template\":\"{{ value_json." \o key \o " }}\""
         \o ",\"icon\":" \o Quoted(IconForSensorType(key))
         \o ",\"unit_of_measurement\":" \o Quoted(UnitForSensorType(key))
         \o ",\"device\":{\"name\":\"Speedtest Sensor\",\"identifiers\":[\"st_"
         \o server.identifier \o "\"],\"manufacturer\":\"Vincent Riemer\""
         \o ",\"model\":\"Speedtest Docker Container\"}}"

NewMessages == (Len(published) + 1)..Len(published')

C20_TopicsAndPayloadsAgree ==
  [][/\ \A i \in NewMessages :
          IsStateMessage(published'[i]) \/ IsConfigMessage(published'[i])
     /\ Len(published') >= Len(published) + 4 =>
          /\ Cardinality({published'[i].topic : i \in NewMessages}) = 4
          /\ Cardinality({published'[i].payload : i \in NewMessages}) = 4
          /\ Cardinality({ExpectedUniqueId(key) : key \in StateKeys}) = 4]_vars

C20_Witness ==
  /\ Len(published) = 10
  /\ published[5].topic = ExpectedStateTopic
  /\ published[6].topic = ExpectedStateTopic
  /\ published[10].topic = ConfigTopic(server.identifier, "buffer_bloat")

====
